---- MODULE Spec2Model ----
(***************************************************************************)
(* Model of the discrete-event scheduler simulator (core/system.py and    *)
(* the classes it drives: Event, Process, Scheduler, Device).             *)
(*                                                                         *)
(* The simulator is single threaded: one action of the model is one call  *)
(* of start(), one iteration of the loop of System.run (pop an event,     *)
(* advance the clock, run its handler to completion) or the report that   *)
(* follows the loop.  Handlers are written as operators from a system     *)
(* record to a system record so that the calls a handler makes            *)
(* (push_event, _attempt_dispatch, _try_start_bus_transfer, ...) compose  *)
(* exactly as in the code.                                                 *)
(*                                                                         *)
(* None is modelled by 0 for a process (pids are positive), by "" for a   *)
(* string and by the record NoPayload for an event payload.  The args     *)
(* list of a syscall is the record [cmd, device, amount]: the command of  *)
(* spawn, the device of read / write, and the integer that                *)
(* int(arg.rstrip(suffix)) yields for the well formed size ("1B") or      *)
(* duration ("26usecs") argument.                                         *)
(***************************************************************************)
EXTENDS Integers, Sequences, FiniteSets, TLC

\* ------------------------------------------------------------------------
\* Program constants (myscheduler.py)
\* ------------------------------------------------------------------------
CONTEXT_SWITCH_IN == 5
CONTEXT_SWITCH_MOVES == 10
BUS_ACQUIRE_DELAY == 20

\* Significand width of a Python float (IEEE-754 binary64)
MantBits == 53
\* multiplier of the utilisation percentage, System.run
PercentScale == 100
\* microseconds per second, System._try_start_bus_transfer
UsecsPerSec == 1000000
\* request_id = (pid << 16) | pc
PidShift == 65536

\* ------------------------------------------------------------------------
\* Bounds of the model
\* ------------------------------------------------------------------------
\* syscalls of a command file, over all its commands
MaxLen == 3
\* processes ever created (spawn is disabled beyond it)
MaxProcs == 3
\* latest virtual time at which an event is still handled
MaxTime == 130
\* commands launched together in the specification of several processes
MaxEntries == 3
\* events pushed in the queue-only specification
MaxPush == 5
\* largest timestamp pushed in the queue-only specification
MaxStamp == 1

NoPid == 0
NoPayload == [reason |-> "", from |-> "", device |-> "", request_id |-> 0]

\* ------------------------------------------------------------------------
\* Python floats: the two float expressions of the code are
\*    int((cpu_busy_time / total_time) * 100)        (System.run)
\*    math.ceil((size / speed) * 1_000_000)          (_try_start_bus_transfer)
\* A float is [zero, m, e]: value m * 2^e with m a sequence of MantBits bits,
\* most significant first and m[1] = 1.  Division and multiplication round to
\* nearest, ties to even, as IEEE-754 does.
\* ------------------------------------------------------------------------
\* Numbers wider than the integers at hand are sequences of bits, handled
\* LimbBits bits (one limb) at a time.
LimbBits == 10
\* naturals converted to bits are below 2^LimbTop
LimbTop == 30
\* limbs of the binary expansion of a quotient that a division looks at
FracLimbCount == 8

RECURSIVE Pow2(_)
Pow2(n) ==
    IF n = 0 THEN 1
    ELSE LET h == Pow2(n \div 2)
         IN  IF n % 2 = 0 THEN h * h ELSE 2 * h * h

LimbBase == Pow2(LimbBits)
LimbWeights == [i \in 1..LimbBits |-> Pow2(LimbBits - i)]

\* number of binary digits of n
BitLen(n) == CHOOSE l \in 0..LimbTop : Pow2(l) > n /\ (l = 0 \/ Pow2(l - 1) <= n)

\* the l low binary digits of n, most significant first
BitsOfLen(n, l) == [i \in 1..l |-> (n \div Pow2(l - i)) % 2]

BitsOfNat(n) == BitsOfLen(n, BitLen(n))

RECURSIVE NatOfBits(_)
NatOfBits(bs) ==
    IF bs = <<>> THEN 0
    ELSE IF Len(bs) = 1 THEN bs[1]
    ELSE LET h == Len(bs) \div 2
         IN  NatOfBits(SubSeq(bs, 1, h)) * Pow2(Len(bs) - h)
             + NatOfBits(SubSeq(bs, h + 1, Len(bs)))

HasOne(bs) == \E i \in 1..Len(bs) : bs[i] = 1

StripZeros(bs) ==
    IF ~HasOne(bs) THEN <<>>
    ELSE LET f == CHOOSE i \in 1..Len(bs) :
                      bs[i] = 1 /\ \A j \in 1..(i - 1) : bs[j] = 0
         IN  SubSeq(bs, f, Len(bs))

\* bs + 1 on a bit sequence (one bit longer when bs is all ones)
IncBits(bs) ==
    IF \A i \in 1..Len(bs) : bs[i] = 1
    THEN <<1>> \o [i \in 1..Len(bs) |-> 0]
    ELSE LET z == CHOOSE i \in 1..Len(bs) :
                      bs[i] = 0 /\ \A j \in (i + 1)..Len(bs) : bs[j] = 1
         IN  [i \in 1..Len(bs) |-> IF i < z THEN bs[i] ELSE IF i = z THEN 1 ELSE 0]

\* the bits of a sequence of limbs
BitsOfLimbs(ls) ==
    [i \in 1..(Len(ls) * LimbBits) |->
        (ls[1 + ((i - 1) \div LimbBits)]
            \div LimbWeights[1 + ((i - 1) % LimbBits)]) % 2]

\* the limbs of a bit sequence whose length is a multiple of LimbBits
LimbsOfBits(padded) ==
    [k \in 1..(Len(padded) \div LimbBits) |->
        NatOfBits(SubSeq(padded, (k - 1) * LimbBits + 1, k * LimbBits))]

\* limbs (most significant first) times c plus carry, as limbs again, the
\* final carry apart
RECURSIVE MulLimbs(_, _, _)
MulLimbs(ls, c, carry) ==
    IF ls = <<>> THEN [limbs |-> <<>>, carry |-> carry]
    ELSE LET v    == ls[Len(ls)] * c + carry
             high == MulLimbs(SubSeq(ls, 1, Len(ls) - 1), c, v \div LimbBase)
         IN  [limbs |-> Append(high.limbs, v % LimbBase), carry |-> high.carry]

BitsOfProduct(prod) == StripZeros(BitsOfNat(prod.carry) \o BitsOfLimbs(prod.limbs))

\* bs * c for a bit sequence bs and a natural c <= UsecsPerSec, without
\* leading zeros
MulBits(bs, c) ==
    LET n == (Len(bs) + LimbBits - 1) \div LimbBits
    IN  BitsOfProduct(MulLimbs(
            LimbsOfBits([i \in 1..(n * LimbBits - Len(bs)) |-> 0] \o bs), c, 0))

\* Round a significand, value kept * 2^e; up: whether the discarded part
\* rounds upwards.
RoundMant(kept, up, e) ==
    IF ~up THEN [zero |-> FALSE, m |-> kept, e |-> e]
    ELSE IF \A i \in 1..Len(kept) : kept[i] = 1
         THEN [zero |-> FALSE, m |-> SubSeq(IncBits(kept), 1, MantBits), e |-> e + 1]
         ELSE [zero |-> FALSE, m |-> IncBits(kept), e |-> e]

FloatZero == [zero |-> TRUE, m |-> <<>>, e |-> 0]

\* the float nearest to sig * 2^e (+ a non-zero part below the last bit of
\* sig when tail holds), for sig of at least MantBits bits with sig[1] = 1
FloatOfBits(sig, e, tail) ==
    LET kept == SubSeq(sig, 1, MantBits)
        rest == SubSeq(sig, MantBits + 1, Len(sig))
        up   == /\ rest # <<>>
                /\ rest[1] = 1
                /\ \/ HasOne(SubSeq(rest, 2, Len(rest)))
                   \/ tail
                   \/ kept[MantBits] = 1
    IN  RoundMant(kept, up, e + Len(rest))

\* n limbs of the binary expansion of r / b (0 <= r < b < 2^21) and the
\* remainder left
RECURSIVE FracLimbs(_, _, _)
FracLimbs(r, b, n) ==
    IF n = 0 THEN [digits |-> <<>>, rem |-> r]
    ELSE LET rest == FracLimbs((r * LimbBase) % b, b, n - 1)
         IN  [digits |-> <<(r * LimbBase) \div b>> \o rest.digits, rem |-> rest.rem]

\* the float of an expansion: the bits of the integer part, the limbs after
\* the binary point, and whether the expansion goes on after them
FloatOfExpansion(ibits, frac) ==
    FloatOfBits(StripZeros(ibits \o BitsOfLimbs(frac.digits)),
                0 - Len(frac.digits) * LimbBits, frac.rem # 0)

\* a / b for naturals a and 0 < b < 2^21 (Python true division of two ints)
FloatDiv(a, b) ==
    IF a = 0 THEN FloatZero
    ELSE FloatOfExpansion(BitsOfNat(a \div b), FracLimbs(a % b, b, FracLimbCount))

\* f * c for a float f and a natural c that a float holds exactly
FloatMulInt(f, c) ==
    IF f.zero \/ c = 0 THEN FloatZero
    ELSE FloatOfBits(MulBits(f.m, c), f.e, FALSE)

\* integer part of a non-negative float below 2^LimbTop: int(x)
FloatTrunc(f) ==
    IF f.zero THEN 0
    ELSE IF 0 - f.e >= MantBits THEN 0
    ELSE NatOfBits(SubSeq(f.m, 1, MantBits + f.e))

\* math.ceil(x) of a non-negative float below 2^LimbTop
FloatCeil(f) ==
    IF f.zero THEN 0
    ELSE IF 0 - f.e >= MantBits THEN 1
    ELSE FloatTrunc(f)
         + (IF HasOne(SubSeq(f.m, MantBits + f.e + 1, MantBits)) THEN 1 ELSE 0)

\* int((cpu_busy_time / total_time) * 100) if total_time > 0 else 0
CpuUtil(busy, total) ==
    IF total > 0 THEN FloatTrunc(FloatMulInt(FloatDiv(busy, total), PercentScale))
    ELSE 0

\* math.ceil((size / speed) * 1_000_000)
TransferUsecs(size, speed) ==
    FloatCeil(FloatMulInt(FloatDiv(size, speed), UsecsPerSec))


\* ------------------------------------------------------------------------
\* State
\* ------------------------------------------------------------------------
VARIABLES
    commands,        \* System.commands: sequence of [name, syscalls], file order
    time_quantum,    \* System.time_quantum
    devices,         \* System.devices: sequence of Device records, dict order
    current_time,    \* System.current_time
    event_queue,     \* System.event_queue: the heapq array
    event_counter,   \* System._event_counter
    ready_queue,     \* Scheduler.ready_queue: sequence of pids
    running,         \* Scheduler.running: a pid or NoPid
    process_table,   \* System.process_table: pid -> Process record
    pid_counter,     \* Process._pid_counter
    bus_busy,        \* System.bus_busy
    bus_owner,       \* System.bus_owner: a pid or NoPid
    cpu_busy_time,   \* System.cpu_busy_time
    phase,           \* "init" (constructed), "running" (in run), "done"; "queue"
    cpu_util,        \* the utilisation printed by run, -1 before the report
    last,            \* the event handled last and its process's pc before it
    enqueued,        \* ready queue (pid, state) right after the last handler's
                     \* enqueue_ready, <<>> if it made none
    dispatches,      \* number of dispatches _attempt_dispatch has started
    slice_start,     \* virtual time of the last DISPATCH_COMPLETE
    slice_total,     \* sum of the lengths of the run slices completed
    started          \* <<[d, req, devices]>>: the device and request the last
                     \* handler's _try_start_bus_transfer chose and the
                     \* devices it chose from; <<>> if it started no transfer

vars == <<commands, time_quantum, devices, current_time, event_queue,
          event_counter, ready_queue, running, process_table, pid_counter,
          bus_busy, bus_owner, cpu_busy_time, phase, cpu_util, last, enqueued,
          dispatches, slice_start, slice_total, started>>

\* the System object (with the scheduler's fields and the two observers a
\* handler feeds) as one record
Sys ==
    [commands |-> commands, time_quantum |-> time_quantum, devices |-> devices,
     current_time |-> current_time, event_queue |-> event_queue,
     event_counter |-> event_counter, ready_queue |-> ready_queue,
     running |-> running, process_table |-> process_table,
     pid_counter |-> pid_counter, bus_busy |-> bus_busy,
     bus_owner |-> bus_owner, cpu_busy_time |-> cpu_busy_time,
     enqueued |-> enqueued, dispatches |-> dispatches, started |-> started]

\* ------------------------------------------------------------------------
\* Event and the heapq event queue
\* ------------------------------------------------------------------------
NoReason == [kind |-> "", device |-> "", op |-> "", size |-> 0,
             request_id |-> 0, duration |-> 0]

Event(time, order, type, process, payload) ==
    [time |-> time, order |-> order, type |-> type, process |-> process,
     payload |-> payload]

NoEvent == Event(0, 0, "", NoPid, NoPayload)

\* Event.__lt__ of @dataclass(order=True): only `time` takes part, every
\* other field is declared with compare=False
EventLess(a, b) == a.time < b.time

\* heapq._siftdown(heap, startpos, pos), positions counted from 1
RECURSIVE SiftDownLoop(_, _, _, _)
SiftDownLoop(heap, startpos, pos, newitem) ==
    IF pos > startpos /\ EventLess(newitem, heap[pos \div 2])
    THEN SiftDownLoop([heap EXCEPT ![pos] = heap[pos \div 2]], startpos,
                      pos \div 2, newitem)
    ELSE [heap EXCEPT ![pos] = newitem]

SiftDown(heap, startpos, pos) == SiftDownLoop(heap, startpos, pos, heap[pos])

\* heapq._siftup(heap, pos): bubble the smaller child up to a leaf, then
\* sift the displaced item down
RECURSIVE SiftUpLoop(_, _, _)
SiftUpLoop(heap, pos, newitem) ==
    IF 2 * pos <= Len(heap)
    THEN LET left     == 2 * pos
             childpos == IF left + 1 <= Len(heap)
                            /\ ~EventLess(heap[left], heap[left + 1])
                         THEN left + 1 ELSE left
         IN  SiftUpLoop([heap EXCEPT ![pos] = heap[childpos]], childpos, newitem)
    ELSE [heap |-> [heap EXCEPT ![pos] = newitem], pos |-> pos]

SiftUp(heap, pos) ==
    LET r == SiftUpLoop(heap, pos, heap[pos])
    IN  SiftDown(r.heap, pos, r.pos)

\* heapq.heappush
HeapPush(heap, item) == SiftDown(Append(heap, item), 1, Len(heap) + 1)

\* heapq.heappop on a non-empty heap: the item returned and the heap left
HeapPop(heap) ==
    LET lastelt == heap[Len(heap)]
        rest    == SubSeq(heap, 1, Len(heap) - 1)
    IN  IF rest # <<>>
        THEN [item |-> rest[1], heap |-> SiftUp([rest EXCEPT ![1] = lastelt], 1)]
        ELSE [item |-> lastelt, heap |-> rest]

\* System.push_event
PushEvent(s, time, etype, process, payload) ==
    [s EXCEPT !.event_counter = @ + 1,
              !.event_queue = HeapPush(@, Event(time, s.event_counter + 1,
                                                etype, process, payload))]

\* ------------------------------------------------------------------------
\* sorted(seq, key) and list.sort(key): stable.  A key is a pair, compared
\* as Python compares tuples (a single number k is the pair <<k, 0>>).
\* ------------------------------------------------------------------------
KeyLess(a, b) == a[1] < b[1] \/ (a[1] = b[1] /\ a[2] < b[2])

\* keys[i] is the key of seq[i]
StableSort(seq, keys) ==
    LET n == Len(seq)
        Rank(i) == Cardinality({j \in 1..n :
                        \/ KeyLess(keys[j], keys[i])
                        \/ ~KeyLess(keys[i], keys[j]) /\ j < i}) + 1
    IN  [k \in 1..n |-> seq[CHOOSE i \in 1..n : Rank(i) = k]]

\* ------------------------------------------------------------------------
\* Process
\* ------------------------------------------------------------------------
\* key=lambda s: s.when
SyscallWhenKeys(syscalls) == [i \in 1..Len(syscalls) |-> <<syscalls[i].when, 0>>]

\* Process.__init__
NewProcess(pid, command_name, syscalls, ppid) ==
    [pid |-> pid, ppid |-> ppid, command_name |-> command_name,
     syscalls |-> StableSort(syscalls, SyscallWhenKeys(syscalls)), pc |-> 0,
     state |-> "NEW", cpu_time_executed |-> 0, children |-> <<>>,
     waiting_for_children |-> FALSE, blocked_reason |-> NoReason]

NoneTime == -1

Max(a, b) == IF a >= b THEN a ELSE b
Min(a, b) == IF a <= b THEN a ELSE b

\* Process.time_until_next_syscall (NoneTime for None); pc counts from 0
TimeUntilNextSyscall(p) ==
    IF p.pc >= Len(p.syscalls) THEN NoneTime
    ELSE Max(0, p.syscalls[p.pc + 1].when - p.cpu_time_executed)

\* Process.current_syscall, for a process with pc < len(syscalls)
CurrentSyscall(p) == p.syscalls[p.pc + 1]

HasCurrentSyscall(p) == p.pc < Len(p.syscalls)

\* Process.advance_pc
AdvancePc(s, pid) == [s EXCEPT !.process_table[pid].pc = @ + 1]

CommandBody(cmds, name) ==
    cmds[CHOOSE i \in 1..Len(cmds) : cmds[i].name = name].syscalls

\* System.create_process: the new pid is s.pid_counter
CreateProcess(s, command_name, parent) ==
    LET p  == NewProcess(s.pid_counter, command_name,
                         CommandBody(s.commands, command_name), parent)
        s1 == [s EXCEPT !.pid_counter = @ + 1,
                        !.process_table = Append(@, p)]
    IN  IF parent # NoPid
        THEN [s1 EXCEPT !.process_table[parent].children = Append(@, p.pid)]
        ELSE s1

\* ------------------------------------------------------------------------
\* Scheduler
\* ------------------------------------------------------------------------
\* enqueue_ready that appends the process twice
EnqueueReadyTwice(s, pid) ==
    LET s1 == [s EXCEPT !.process_table[pid].state = "READY",
                        !.ready_queue = Append(Append(@, pid), pid)]
    IN  [s1 EXCEPT !.enqueued =
            [i \in 1..Len(s1.ready_queue) |->
                [pid |-> s1.ready_queue[i],
                 state |-> s1.process_table[s1.ready_queue[i]].state]]]

\* Scheduler.enqueue_ready
EnqueueReady(s, pid) ==
    LET s1 == [s EXCEPT !.process_table[pid].state = "READY",
                        !.ready_queue = Append(@, pid)]
    IN  [s1 EXCEPT !.enqueued =
            [i \in 1..Len(s1.ready_queue) |->
                [pid |-> s1.ready_queue[i],
                 state |-> s1.process_table[s1.ready_queue[i]].state]]]

\* Scheduler.has_ready
HasReady(s) == s.ready_queue # <<>>

\* _attempt_dispatch that takes the process enqueued last
AttemptDispatchFromTail(s) ==
    IF s.running # NoPid THEN s
    ELSE IF ~HasReady(s) THEN s
    ELSE LET next_proc == s.ready_queue[Len(s.ready_queue)]
             s1 == [s EXCEPT !.ready_queue = SubSeq(@, 1, Len(@) - 1),
                             !.process_table[next_proc].state = "READY",
                             !.dispatches = @ + 1]
             s2 == PushEvent(s1, s.current_time + CONTEXT_SWITCH_IN,
                             "DISPATCH_COMPLETE", next_proc, NoPayload)
         IN  [s2 EXCEPT !.running = next_proc]

\* _attempt_dispatch that picks the head without removing it from the queue
AttemptDispatchNoPop(s) ==
    IF s.running # NoPid THEN s
    ELSE IF ~HasReady(s) THEN s
    ELSE LET next_proc == Head(s.ready_queue)
             s1 == [s EXCEPT !.process_table[next_proc].state = "READY",
                             !.dispatches = @ + 1]
             s2 == PushEvent(s1, s.current_time + CONTEXT_SWITCH_IN,
                             "DISPATCH_COMPLETE", next_proc, NoPayload)
         IN  [s2 EXCEPT !.running = next_proc]

\* _attempt_dispatch that does not reserve the CPU for the process it
\* dispatches
AttemptDispatchNoReserve(s) ==
    IF s.running # NoPid THEN s
    ELSE IF ~HasReady(s) THEN s
    ELSE LET next_proc == Head(s.ready_queue)
             s1 == [s EXCEPT !.ready_queue = Tail(@),
                             !.process_table[next_proc].state = "READY",
                             !.dispatches = @ + 1]
         IN  PushEvent(s1, s.current_time + CONTEXT_SWITCH_IN,
                       "DISPATCH_COMPLETE", next_proc, NoPayload)

\* System._attempt_dispatch (with Scheduler.pick_next)
AttemptDispatch(s) ==
    IF s.running # NoPid THEN s
    ELSE IF ~HasReady(s) THEN s
    ELSE LET next_proc == Head(s.ready_queue)
             s1 == [s EXCEPT !.ready_queue = Tail(@),
                             !.process_table[next_proc].state = "READY",
                             !.dispatches = @ + 1]
             s2 == PushEvent(s1, s.current_time + CONTEXT_SWITCH_IN,
                             "DISPATCH_COMPLETE", next_proc, NoPayload)
         IN  [s2 EXCEPT !.running = next_proc]

\* ------------------------------------------------------------------------
\* Devices and the data bus
\* ------------------------------------------------------------------------
\* Device.__init__
NewDevice(name, read_speed, write_speed) ==
    [name |-> name, read_speed |-> read_speed, write_speed |-> write_speed,
     queue |-> <<>>, in_use |-> FALSE]

\* index of self.devices[name]
DeviceIndex(devs, name) == CHOOSE i \in 1..Len(devs) : devs[i].name = name

\* Device.enqueue
DeviceEnqueue(s, d, enqueue_time, process, op, size, request_id) ==
    [s EXCEPT !.devices[d].queue =
        Append(@, [enqueue_time |-> enqueue_time, process |-> process,
                   op |-> op, size |-> size, request_id |-> request_id])]

RequestKeys(queue) == [i \in 1..Len(queue) |-> <<queue[i].enqueue_time, 0>>]

\* min(enq for enq, *_ in d.queue) of a non-empty queue
MinEnqueueTime(queue) ==
    CHOOSE t \in {queue[i].enqueue_time : i \in 1..Len(queue)} :
        \A i \in 1..Len(queue) : t <= queue[i].enqueue_time

\* key=lambda d: (-d.read_speed, min(enq ...)) of candidates.sort
\* sort key that ranks the devices by their write speed
CandidateKeyByWriteSpeed(d) == <<-d.write_speed, MinEnqueueTime(d.queue)>>

CandidateKey(d) == <<-d.read_speed, MinEnqueueTime(d.queue)>>

\* candidates restricted to the devices of the largest read_speed of the
\* table, whether or not they have requests
SortedCandidatesFastestOnly(devs) ==
    LET cand == SelectSeq([i \in 1..Len(devs) |-> i],
                          LAMBDA i : /\ devs[i].queue # <<>>
                                     /\ \A j \in 1..Len(devs) :
                                            devs[j].read_speed <= devs[i].read_speed)
    IN  StableSort(cand, [k \in 1..Len(cand) |-> CandidateKey(devs[cand[k]])])

\* candidates of _try_start_bus_transfer after the sort: device indexes
SortedCandidates(devs) ==
    LET cand == SelectSeq([i \in 1..Len(devs) |-> i],
                          LAMBDA i : devs[i].queue # <<>>)
    IN  StableSort(cand, [k \in 1..Len(cand) |-> CandidateKey(devs[cand[k]])])

\* System._try_start_bus_transfer
TryStartBusTransfer(s) ==
    IF s.bus_busy THEN s
    ELSE LET candidates == SortedCandidates(s.devices)
         IN  IF candidates = <<>> THEN s
             ELSE LET d      == candidates[1]
                      dev    == s.devices[d]
                      sorted == StableSort(dev.queue, RequestKeys(dev.queue))
                      req    == sorted[1]
                      speed  == IF req.op = "read" THEN dev.read_speed
                                ELSE dev.write_speed
                      transfer_usecs == TransferUsecs(req.size, speed)
                      complete_time  == s.current_time + BUS_ACQUIRE_DELAY
                                            + transfer_usecs
                      s1 == [s EXCEPT !.started = <<[d |-> d, req |-> req,
                                                     devices |-> s.devices]>>,
                                      !.devices[d].queue = Tail(sorted),
                                      !.devices[d].in_use = TRUE,
                                      !.bus_busy = TRUE,
                                      !.bus_owner = req.process]
                  IN  PushEvent(s1, complete_time, "IO_COMPLETE", req.process,
                                [NoPayload EXCEPT !.device = dev.name,
                                                  !.request_id = req.request_id])

\* ------------------------------------------------------------------------
\* Event handlers
\* ------------------------------------------------------------------------
\* System._handle_arrival
HandleArrival(s, ev) ==
    LET p  == ev.process
        s1 == EnqueueReady([s EXCEPT !.process_table[p].state = "READY"], p)
    IN  IF s1.running = NoPid THEN AttemptDispatch(s1) ELSE s1

\* System._handle_dispatch_complete
HandleDispatchComplete(s, ev) ==
    LET p  == ev.process
        s1 == [s EXCEPT !.process_table[p].state = "RUNNING"]
        t_until_syscall == TimeUntilNextSyscall(s1.process_table[p])
        run_for == IF t_until_syscall # NoneTime
                   THEN Min(s.time_quantum, t_until_syscall)
                   ELSE s.time_quantum
        s2 == [s1 EXCEPT !.cpu_busy_time = @ + run_for]
    IN  PushEvent(s2, s.current_time + run_for, "RUN_COMPLETE", p, NoPayload)

\* System._handle_run_complete
HandleRunComplete(s, ev) ==
    LET p  == ev.process
        t_until_syscall == TimeUntilNextSyscall(s.process_table[p])
        s1 == IF t_until_syscall = NoneTime \/ t_until_syscall > 0
              THEN \* both arms of the conditional expression add the quantum
                   PushEvent([s EXCEPT
                                !.process_table[p].cpu_time_executed =
                                    @ + s.time_quantum,
                                !.process_table[p].state = "RUNNING"],
                             s.current_time + CONTEXT_SWITCH_MOVES,
                             "BLOCKED_TO_READY", p,
                             [NoPayload EXCEPT !.reason = "quantum"])
              ELSE PushEvent([s EXCEPT
                                !.process_table[p].cpu_time_executed =
                                    @ + t_until_syscall],
                             s.current_time, "SYSCALL_INVOKED", p, NoPayload)
        s2 == IF p = s1.running THEN [s1 EXCEPT !.running = NoPid] ELSE s1
    IN  AttemptDispatch(s2)

\* System._handle_syscall_invoked, spawn branch
SyscallSpawn(s, p, sc) ==
    LET child == s.pid_counter
        s1 == CreateProcess(s, sc.args.cmd, p)
        s2 == PushEvent(s1, s.current_time, "PROCESS_ARRIVAL", child, NoPayload)
    IN  AdvancePc(s2, p)

\* System._handle_syscall_invoked, read / write branch
SyscallIo(s, p, sc) ==
    LET d  == DeviceIndex(s.devices, sc.args.device)
        size == sc.args.amount
        request_id == p * PidShift + s.process_table[p].pc
        s1 == DeviceEnqueue(s, d, s.current_time, p, sc.name, size, request_id)
        s2 == [s1 EXCEPT !.process_table[p].blocked_reason =
                  [NoReason EXCEPT !.kind = "io", !.device = s.devices[d].name,
                                   !.op = sc.name, !.size = size,
                                   !.request_id = request_id]]
        s3 == AdvancePc(s2, p)
        s4 == PushEvent(s3, s.current_time + CONTEXT_SWITCH_MOVES,
                        "BLOCKED_TO_READY", p,
                        [NoPayload EXCEPT !.reason = "io_block"])
    IN  TryStartBusTransfer(s4)

\* sleep branch that wakes the process without the cost of the move
SyscallSleepNoMove(s, p, sc) ==
    LET duration == sc.args.amount
        s1 == [s EXCEPT !.process_table[p].blocked_reason =
                  [NoReason EXCEPT !.kind = "sleep", !.duration = duration]]
        s2 == AdvancePc(s1, p)
    IN  PushEvent(s2, s.current_time + duration, "SLEEP_COMPLETE", p,
                  NoPayload)

\* sleep branch that forgets the current time in the wake-up time
SyscallSleepNoNow(s, p, sc) ==
    LET duration == sc.args.amount
        s1 == [s EXCEPT !.process_table[p].blocked_reason =
                  [NoReason EXCEPT !.kind = "sleep", !.duration = duration]]
        s2 == AdvancePc(s1, p)
    IN  PushEvent(s2, CONTEXT_SWITCH_MOVES + duration, "SLEEP_COMPLETE", p,
                  NoPayload)

\* System._handle_syscall_invoked, sleep branch
SyscallSleep(s, p, sc) ==
    LET duration == sc.args.amount
        s1 == [s EXCEPT !.process_table[p].blocked_reason =
                  [NoReason EXCEPT !.kind = "sleep", !.duration = duration]]
        s2 == AdvancePc(s1, p)
        to_block_time == s.current_time + CONTEXT_SWITCH_MOVES
    IN  PushEvent(s2, to_block_time + duration, "SLEEP_COMPLETE", p, NoPayload)

\* System._handle_syscall_invoked, wait branch
SyscallWait(s, p, sc) ==
    IF s.process_table[p].children = <<>> THEN AdvancePc(s, p)
    ELSE LET s1 == [s EXCEPT !.process_table[p].waiting_for_children = TRUE,
                             !.process_table[p].blocked_reason =
                                 [NoReason EXCEPT !.kind = "wait"]]
             s2 == AdvancePc(s1, p)
         IN  PushEvent(s2, s.current_time + CONTEXT_SWITCH_MOVES,
                       "BLOCKED_TO_READY", p,
                       [NoPayload EXCEPT !.reason = "wait_block"])

\* System._handle_syscall_invoked, exit branch
SyscallExit(s, p, sc) ==
    PushEvent(AdvancePc(s, p), s.current_time, "PROCESS_EXIT", p, NoPayload)

\* System._handle_syscall_invoked (the names of the catalogs modelled are the
\* six the code knows; any other name raises ValueError)
HandleSyscallInvoked(s, ev) ==
    LET p == ev.process
    IN  IF ~HasCurrentSyscall(s.process_table[p]) THEN s
        ELSE LET sc == CurrentSyscall(s.process_table[p])
             IN  CASE sc.name = "spawn" -> SyscallSpawn(s, p, sc)
                   [] sc.name \in {"read", "write"} -> SyscallIo(s, p, sc)
                   [] sc.name = "sleep" -> SyscallSleep(s, p, sc)
                   [] sc.name = "wait" -> SyscallWait(s, p, sc)
                   [] sc.name = "exit" -> SyscallExit(s, p, sc)

\* System._handle_blocked_to_ready
HandleBlockedToReady(s, ev) ==
    LET p == ev.process
        reason == ev.payload.reason
        s1 == CASE reason = "quantum" ->
                     EnqueueReady([s EXCEPT !.process_table[p].state = "READY"], p)
                [] reason \in {"io_block", "wait_block"} ->
                     [s EXCEPT !.process_table[p].state = "BLOCKED",
                               !.running = IF @ = p THEN NoPid ELSE @]
                [] OTHER ->
                     EnqueueReady([s EXCEPT
                         !.process_table[p].state = "READY",
                         !.process_table[p].blocked_reason = NoReason,
                         !.process_table[p].waiting_for_children = FALSE], p)
    IN  AttemptDispatch(s1)

\* _handle_io_complete that does not try to start the next transfer
HandleIoCompleteNoRetry(s, ev) ==
    LET d  == DeviceIndex(s.devices, ev.payload.device)
        s1 == [s EXCEPT !.devices[d].in_use = FALSE,
                        !.bus_busy = FALSE,
                        !.bus_owner = NoPid]
    IN  PushEvent(s1, s.current_time + CONTEXT_SWITCH_MOVES,
                  "BLOCKED_TO_READY", ev.process,
                  [NoPayload EXCEPT !.from = "io"])

\* _handle_io_complete that makes the process ready without the cost of the
\* move
HandleIoCompleteNoMove(s, ev) ==
    LET d  == DeviceIndex(s.devices, ev.payload.device)
        s1 == [s EXCEPT !.devices[d].in_use = FALSE,
                        !.bus_busy = FALSE,
                        !.bus_owner = NoPid]
        s2 == PushEvent(s1, s.current_time, "BLOCKED_TO_READY", ev.process,
                        [NoPayload EXCEPT !.from = "io"])
    IN  TryStartBusTransfer(s2)

\* _handle_io_complete that frees the bus but leaves the device in use
HandleIoCompleteKeepsDevice(s, ev) ==
    LET s1 == [s EXCEPT !.bus_busy = FALSE,
                        !.bus_owner = NoPid]
        s2 == PushEvent(s1, s.current_time + CONTEXT_SWITCH_MOVES,
                        "BLOCKED_TO_READY", ev.process,
                        [NoPayload EXCEPT !.from = "io"])
    IN  TryStartBusTransfer(s2)

\* System._handle_io_complete
HandleIoComplete(s, ev) ==
    LET d  == DeviceIndex(s.devices, ev.payload.device)
        s1 == [s EXCEPT !.devices[d].in_use = FALSE,
                        !.bus_busy = FALSE,
                        !.bus_owner = NoPid]
        s2 == PushEvent(s1, s.current_time + CONTEXT_SWITCH_MOVES,
                        "BLOCKED_TO_READY", ev.process,
                        [NoPayload EXCEPT !.from = "io"])
    IN  TryStartBusTransfer(s2)

\* System._handle_sleep_complete
HandleSleepComplete(s, ev) ==
    PushEvent(s, s.current_time + CONTEXT_SWITCH_MOVES, "BLOCKED_TO_READY",
              ev.process, [NoPayload EXCEPT !.from = "sleep"])

\* System._handle_spawn
HandleSpawn(s, ev) == s

\* System._handle_wait_complete
HandleWaitComplete(s, ev) ==
    PushEvent(s, s.current_time + CONTEXT_SWITCH_MOVES, "BLOCKED_TO_READY",
              ev.process, [NoPayload EXCEPT !.from = "wait"])

\* _handle_process_exit that wakes the waiting parent as soon as one of its
\* children is in EXIT
HandleProcessExitAnyChild(s, ev) ==
    LET p  == ev.process
        s1 == [s EXCEPT !.process_table[p].state = "EXIT"]
        ppid == s1.process_table[p].ppid
        s2 == IF /\ ppid # NoPid
                 /\ ppid \in DOMAIN s1.process_table
                 /\ s1.process_table[ppid].waiting_for_children
                 /\ \E i \in 1..Len(s1.process_table[ppid].children) :
                        s1.process_table[s1.process_table[ppid].children[i]].state
                            = "EXIT"
              THEN PushEvent(s1, s.current_time, "WAIT_COMPLETE", ppid, NoPayload)
              ELSE s1
    IN  [s2 EXCEPT !.running = IF @ = p THEN NoPid ELSE @]

\* System._handle_process_exit
HandleProcessExit(s, ev) ==
    LET p  == ev.process
        s1 == [s EXCEPT !.process_table[p].state = "EXIT"]
        ppid == s1.process_table[p].ppid
        s2 == IF /\ ppid # NoPid
                 /\ ppid \in DOMAIN s1.process_table
                 /\ s1.process_table[ppid].waiting_for_children
                 /\ \A i \in 1..Len(s1.process_table[ppid].children) :
                        s1.process_table[s1.process_table[ppid].children[i]].state
                            = "EXIT"
              THEN PushEvent(s1, s.current_time, "WAIT_COMPLETE", ppid, NoPayload)
              ELSE s1
    IN  [s2 EXCEPT !.running = IF @ = p THEN NoPid ELSE @]

\* the handler table of System.run; an event type without an entry
\* (CPU_AVAILABLE) is only reported
Handle(s, ev) ==
    CASE ev.type = "PROCESS_ARRIVAL"   -> HandleArrival(s, ev)
      [] ev.type = "DISPATCH_COMPLETE" -> HandleDispatchComplete(s, ev)
      [] ev.type = "RUN_COMPLETE"      -> HandleRunComplete(s, ev)
      [] ev.type = "SYSCALL_INVOKED"   -> HandleSyscallInvoked(s, ev)
      [] ev.type = "IO_COMPLETE"       -> HandleIoComplete(s, ev)
      [] ev.type = "SLEEP_COMPLETE"    -> HandleSleepComplete(s, ev)
      [] ev.type = "BLOCKED_TO_READY"  -> HandleBlockedToReady(s, ev)
      [] ev.type = "PROCESS_EXIT"      -> HandleProcessExit(s, ev)
      [] ev.type = "SPAWN"             -> HandleSpawn(s, ev)
      [] ev.type = "WAIT_COMPLETE"     -> HandleWaitComplete(s, ev)
      [] OTHER                         -> s

\* ------------------------------------------------------------------------
\* Inputs: the sysconfig and the command catalogs explored
\* ------------------------------------------------------------------------
NoArgs == [cmd |-> "", device |-> "", amount |-> 0]

SystemCall(when, name, args) == [when |-> when, name |-> name, args |-> args]

CommandNames == <<"work", "shell">>
DeviceTable == <<NewDevice("d1", 25000, 20000), NewDevice("d2", 31250, 12500)>>
Quanta == {20}

\* the syscalls a command is written from: one at offset 0 of each kind, and
\* a sleep and an exit at an offset that takes more than one quantum to reach
Syscalls ==
    {SystemCall(0, "spawn", [NoArgs EXCEPT !.cmd = CommandNames[2]]),
     SystemCall(0, "read", [NoArgs EXCEPT !.device = "d1", !.amount = 1]),
     SystemCall(0, "write", [NoArgs EXCEPT !.device = "d2", !.amount = 1]),
     SystemCall(0, "sleep", [NoArgs EXCEPT !.amount = 0]),
     SystemCall(29, "sleep", [NoArgs EXCEPT !.amount = 11]),
     SystemCall(0, "wait", NoArgs),
     SystemCall(0, "exit", NoArgs),
     SystemCall(29, "exit", NoArgs)}

Programs(n) == UNION {[1..k -> Syscalls] : k \in 0..n}

\* the command files of at most MaxLen syscalls over their two commands, and
\* the empty command file
Catalogs ==
    {<<>>} \cup
    UNION {{<<[name |-> CommandNames[1], syscalls |-> a],
              [name |-> CommandNames[2], syscalls |-> b]>> :
               b \in Programs(MaxLen - Len(a))} : a \in Programs(MaxLen)}

\* ------------------------------------------------------------------------
\* Specification of a run: System.__init__, start(), run()
\* ------------------------------------------------------------------------
\* System.__init__ (and Scheduler.__init__)
Constructed(cmds, devs, quantum) ==
    /\ commands = cmds
    /\ time_quantum = quantum
    /\ devices = devs
    /\ current_time = 0
    /\ event_queue = <<>>
    /\ event_counter = 0
    /\ ready_queue = <<>>
    /\ running = NoPid
    /\ process_table = <<>>
    /\ pid_counter = 1
    /\ bus_busy = FALSE
    /\ bus_owner = NoPid
    /\ cpu_busy_time = 0
    /\ cpu_util = -1
    /\ last = [ev |-> NoEvent, pc |-> 0]
    /\ enqueued = <<>>
    /\ dispatches = 0
    /\ slice_start = 0
    /\ slice_total = 0
    /\ started = <<>>

Init ==
    /\ \E cmds \in Catalogs, quantum \in Quanta :
           Constructed(cmds, DeviceTable, quantum)
    /\ phase = "init"

\* the fields of the System record become the next state
Becomes(s) ==
    /\ commands' = s.commands
    /\ time_quantum' = s.time_quantum
    /\ devices' = s.devices
    /\ current_time' = s.current_time
    /\ event_queue' = s.event_queue
    /\ event_counter' = s.event_counter
    /\ ready_queue' = s.ready_queue
    /\ running' = s.running
    /\ process_table' = s.process_table
    /\ pid_counter' = s.pid_counter
    /\ bus_busy' = s.bus_busy
    /\ bus_owner' = s.bus_owner
    /\ cpu_busy_time' = s.cpu_busy_time
    /\ enqueued' = s.enqueued
    /\ dispatches' = s.dispatches
    /\ started' = s.started

\* start() that launches the last command of the file
EntryCommandLast(cmds) == cmds[Len(cmds)].name

\* the command start() launches
EntryCommand(cmds) == cmds[1].name

\* System.start up to the call of run()
StartSys(s) ==
    LET s1 == CreateProcess(s, EntryCommand(s.commands), NoPid)
    IN  PushEvent(s1, 0, "PROCESS_ARRIVAL", s.pid_counter, NoPayload)

Start ==
    /\ phase = "init"
    /\ IF commands = <<>>
       THEN /\ phase' = "stopped"
            /\ Becomes(Sys)
       ELSE /\ phase' = "running"
            /\ \E s1 \in {StartSys(Sys)} : Becomes(s1)
    /\ UNCHANGED <<cpu_util, last, slice_start, slice_total>>

\* a spawn that would create more than MaxProcs processes is not explored
WithinProcs(ev) ==
    ~ /\ ev.type = "SYSCALL_INVOKED"
      /\ HasCurrentSyscall(process_table[ev.process])
      /\ CurrentSyscall(process_table[ev.process]).name = "spawn"
      /\ Len(process_table) >= MaxProcs

\* one iteration of the loop of System.run
RunStep ==
    /\ phase = "running"
    /\ event_queue # <<>>
    /\ LET popped == HeapPop(event_queue)
           ev == popped.item
           s0 == [Sys EXCEPT !.event_queue = popped.heap,
                             !.current_time = ev.time,
                             !.enqueued = <<>>,
                             !.started = <<>>]
       IN  /\ ev.time <= MaxTime
           /\ WithinProcs(ev)
           /\ \E s1 \in {Handle(s0, ev)} : Becomes(s1)
           /\ last' = [ev |-> ev,
                       pc |-> IF ev.process # NoPid
                              THEN process_table[ev.process].pc ELSE 0]
           /\ slice_start' = IF ev.type = "DISPATCH_COMPLETE" THEN ev.time
                             ELSE slice_start
           /\ slice_total' = IF ev.type = "RUN_COMPLETE"
                             THEN slice_total + (ev.time - slice_start)
                             ELSE slice_total
    /\ UNCHANGED <<phase, cpu_util>>

\* the report after the loop of System.run
Report ==
    /\ phase = "running"
    /\ event_queue = <<>>
    /\ phase' = "done"
    /\ cpu_util' = CpuUtil(cpu_busy_time, current_time)
    /\ UNCHANGED <<commands, time_quantum, devices, current_time, event_queue,
                   event_counter, ready_queue, running, process_table,
                   pid_counter, bus_busy, bus_owner, cpu_busy_time, last,
                   enqueued, dispatches, slice_start, slice_total, started>>

Next == Start \/ RunStep \/ Report

Spec == Init /\ [][Next]_vars

\* ------------------------------------------------------------------------
\* Specification of the event queue alone: any sequence of push_event and
\* pop_event on a System that runs nothing
\* ------------------------------------------------------------------------
InitQueue ==
    /\ Constructed(<<>>, <<>>, 0)
    /\ phase = "queue"

QueuePush ==
    /\ phase = "queue"
    /\ event_counter < MaxPush
    /\ \E t \in 0..MaxStamp :
           \E s1 \in {PushEvent(Sys, t, "PROCESS_ARRIVAL", NoPid, NoPayload)} :
               Becomes(s1)
    /\ UNCHANGED <<phase, cpu_util, last, slice_start, slice_total>>

\* System.pop_event on a non-empty queue
QueuePop ==
    /\ phase = "queue"
    /\ event_queue # <<>>
    /\ LET popped == HeapPop(event_queue)
       IN  /\ Becomes([Sys EXCEPT !.event_queue = popped.heap])
           /\ last' = [ev |-> popped.item, pc |-> 0]
    /\ UNCHANGED <<phase, cpu_util, slice_start, slice_total>>

NextQueue == QueuePush \/ QueuePop

SpecQueue == InitQueue /\ [][NextQueue]_vars

\* ------------------------------------------------------------------------
\* Specification of a run with several processes live at once: a System on
\* which every command of the file is launched at time 0 (create_process and
\* push_event for each command, as start() does for the entry command), and
\* then run()
\* ------------------------------------------------------------------------
MultiNames == <<"a", "b", "c", "d", "e">>

\* d2 and d3 read at the same speed
MultiDevices ==
    <<NewDevice("d1", 25000, 20000), NewDevice("d2", 31250, 12500),
      NewDevice("d3", 31250, 25000)>>

IoSyscalls ==
    {SystemCall(0, op, [NoArgs EXCEPT !.device = dev, !.amount = 1]) :
        op \in {"read", "write"}, dev \in {"d1", "d2", "d3"}}

\* one transfer and an exit, or computing for more than a quantum, or a sleep
MultiPrograms ==
    {<<io, SystemCall(0, "exit", NoArgs)>> : io \in IoSyscalls}
    \cup {<<SystemCall(29, "exit", NoArgs)>>,
          <<SystemCall(0, "sleep", [NoArgs EXCEPT !.amount = 11]),
            SystemCall(0, "exit", NoArgs)>>}

MultiCatalogs ==
    UNION {{[i \in 1..k |-> [name |-> MultiNames[i], syscalls |-> f[i]]] :
               f \in [1..k -> MultiPrograms]} : k \in 1..MaxEntries}

InitMulti ==
    /\ \E cmds \in MultiCatalogs, quantum \in Quanta :
           Constructed(cmds, MultiDevices, quantum)
    /\ phase = "multi"

\* create_process and the push of its arrival at time 0, for the commands
\* from the i-th on
RECURSIVE LaunchFrom(_, _)
LaunchFrom(s, i) ==
    IF i > Len(s.commands) THEN s
    ELSE LET s1 == CreateProcess(s, s.commands[i].name, NoPid)
             s2 == PushEvent(s1, 0, "PROCESS_ARRIVAL", s.pid_counter, NoPayload)
         IN  LaunchFrom(s2, i + 1)

StartAll ==
    /\ phase = "multi"
    /\ phase' = "running"
    /\ \E s1 \in {LaunchFrom(Sys, 1)} : Becomes(s1)
    /\ UNCHANGED <<cpu_util, last, slice_start, slice_total>>

NextMulti == StartAll \/ RunStep \/ Report

SpecMulti == InitMulti /\ [][NextMulti]_vars

\* ------------------------------------------------------------------------
\* Specification of a run of a family of processes: a System on which every
\* command of the file is launched at time 0, the first as start() does and
\* each later one as a child (create_process with parent=, then the push of
\* its arrival, as the spawn branch does), and then run()
\* ------------------------------------------------------------------------
WaitCall == SystemCall(0, "wait", NoArgs)

ExitCall == SystemCall(0, "exit", NoArgs)

\* a wait at once, a wait after a transfer, two waits, or no wait: an exit at
\* once, after more than a quantum, or after a sleep
FamilyPrograms ==
    {<<WaitCall, ExitCall>>,
     <<SystemCall(0, "read", [NoArgs EXCEPT !.device = "d1", !.amount = 1]),
       WaitCall, ExitCall>>,
     <<WaitCall, WaitCall, ExitCall>>,
     <<ExitCall>>,
     <<SystemCall(29, "exit", NoArgs)>>,
     <<SystemCall(0, "sleep", [NoArgs EXCEPT !.amount = 11]), ExitCall>>}

FamilyCatalogs ==
    UNION {{[i \in 1..k |-> [name |-> MultiNames[i], syscalls |-> f[i]]] :
               f \in [1..k -> FamilyPrograms]} : k \in 1..MaxEntries}

\* the parent of each process: the first has none, a later one is a child of
\* the first process or of the one created just before it
FamilyTrees(k) ==
    {f \in [1..k -> 0..k] :
        /\ f[1] = NoPid
        /\ \A i \in 2..k : f[i] \in {1, i - 1}}

InitFamily ==
    /\ \E cmds \in FamilyCatalogs, quantum \in Quanta :
           Constructed(cmds, MultiDevices, quantum)
    /\ phase = "family"

\* create_process with the parent given and the push of the arrival at time
\* 0, for the commands from the i-th on
RECURSIVE LaunchFamilyFrom(_, _, _)
LaunchFamilyFrom(s, i, parents) ==
    IF i > Len(s.commands) THEN s
    ELSE LET s1 == CreateProcess(s, s.commands[i].name, parents[i])
             s2 == PushEvent(s1, 0, "PROCESS_ARRIVAL", s.pid_counter, NoPayload)
         IN  LaunchFamilyFrom(s2, i + 1, parents)

StartFamily ==
    /\ phase = "family"
    /\ phase' = "running"
    /\ \E parents \in FamilyTrees(Len(commands)) :
           \E s1 \in {LaunchFamilyFrom(Sys, 1, parents)} : Becomes(s1)
    /\ UNCHANGED <<cpu_util, last, slice_start, slice_total>>

NextFamily == StartFamily \/ RunStep \/ Report

SpecFamily == InitFamily /\ [][NextFamily]_vars

\* ------------------------------------------------------------------------
\* Specification of a run with several transfers: as SpecMulti, on devices
\* fast enough for three transfers in a row to end before MaxTime, and with
\* the progress of the loop of run(): as long as the event queue is not
\* empty the loop pops and handles the next event, and then it reports
\* ------------------------------------------------------------------------
\* d1 reads slower than d2 and d3
FastDevices ==
    <<NewDevice("d1", 250000, 200000), NewDevice("d2", 312500, 125000),
      NewDevice("d3", 312500, 250000)>>

\* a read of one of the devices or a write of the slowest and an exit, or
\* computing for more than a quantum
IoPrograms ==
    {<<SystemCall(0, "read", [NoArgs EXCEPT !.device = dev, !.amount = 1]),
       ExitCall>> : dev \in {"d1", "d2", "d3"}}
    \cup {<<SystemCall(0, "write", [NoArgs EXCEPT !.device = "d1", !.amount = 1]),
            ExitCall>>,
          <<SystemCall(29, "exit", NoArgs)>>}

IoCatalogs ==
    UNION {{[i \in 1..k |-> [name |-> MultiNames[i], syscalls |-> f[i]]] :
               f \in [1..k -> IoPrograms]} : k \in 1..MaxEntries}

InitIo ==
    /\ \E cmds \in IoCatalogs, quantum \in Quanta :
           Constructed(cmds, FastDevices, quantum)
    /\ phase = "multi"

\* the loop of run() has nothing left to do here: the report is made, or the
\* next event lies after MaxTime (or is a spawn beyond MaxProcs) and the run
\* is not followed further
RunStopped ==
    \/ phase \in {"done", "stopped"}
    \/ /\ phase = "running"
       /\ event_queue # <<>>
       /\ \/ HeapPop(event_queue).item.time > MaxTime
          \/ ~WithinProcs(HeapPop(event_queue).item)

\* weak fairness of NextMulti, WF_vars(NextMulti), with its ENABLED written
\* out: RunStopped holds exactly in the states where no step of NextMulti
\* is possible
RunProgress == []<>RunStopped \/ []<><<NextMulti>>_vars

SpecIo == InitIo /\ [][NextMulti]_vars /\ RunProgress

\* ------------------------------------------------------------------------
\* Properties
\* ------------------------------------------------------------------------
Pids == DOMAIN process_table

ProcessesIn(st) == {pid \in Pids : process_table[pid].state = st}

\* occurrences of pid in the ready queue
TimesReady(pid) == Cardinality({i \in 1..Len(ready_queue) : ready_queue[i] = pid})

Pending(type, pid) ==
    \E i \in 1..Len(event_queue) :
        event_queue[i].type = type /\ event_queue[i].process = pid

\* the syscall the last handled SYSCALL_INVOKED executed
SyscallExecuted ==
    /\ phase = "running"
    /\ last.ev.type = "SYSCALL_INVOKED"
    /\ last.pc < Len(process_table[last.ev.process].syscalls)

LastSyscall == process_table[last.ev.process].syscalls[last.pc + 1]

\* C1: in every reachable state at most one process of the process table is
\* in state RUNNING.
AtMostOneRunning == Cardinality(ProcessesIn("RUNNING")) <= 1

\* C2: of two events with the same timestamp that are both in the queue, the
\* one pushed first is popped first: once an event has been popped, no event
\* of the same timestamp and a smaller insertion number is still queued.
PopsInInsertionOrder ==
    last.ev.type # "" =>
        \A i \in 1..Len(event_queue) :
            event_queue[i].time = last.ev.time =>
                event_queue[i].order > last.ev.order

\* C3: virtual time never decreases from one popped event to the next, and
\* every queued event carries a timestamp of at least the current time.
TimeMonotonic ==
    /\ [](\A i \in 1..Len(event_queue) : event_queue[i].time >= current_time)
    /\ [][current_time' >= current_time]_vars

\* the clock has advanced and the handler of a RUN_COMPLETE has pushed an
\* event for the very time it ran at
TimeAdvancedWithEventNow ==
    /\ phase = "running"
    /\ current_time > 0
    /\ last.ev.type = "RUN_COMPLETE"
    /\ \E i \in 1..Len(event_queue) : event_queue[i].time = current_time

DevicesInUse == {i \in 1..Len(devices) : devices[i].in_use}

\* C4: after every handled event bus_busy holds iff exactly one device is in
\* use, and no device is in use while the bus is idle.
BusBusyIffOneDeviceInUse ==
    /\ bus_busy <=> Cardinality(DevicesInUse) = 1
    /\ ~bus_busy => DevicesInUse = {}

\* a second transfer holds the bus: one device in use, after an IO_COMPLETE
\* has freed the bus before
SecondTransferOnBus ==
    /\ bus_busy
    /\ Cardinality(DevicesInUse) = 1
    /\ \E pid \in Pids : process_table[pid].pc = 2
                         /\ process_table[pid].blocked_reason.kind = "io"
                         /\ process_table[pid].syscalls[1].name \in {"read", "write"}

\* C5: after every handled event every process in the ready queue is READY
\* (and so was every process of the queue when the handler enqueued one).
ReadyQueueHoldsOnlyReady ==
    /\ \A i \in 1..Len(ready_queue) : process_table[ready_queue[i]].state = "READY"
    /\ \A i \in 1..Len(enqueued) : enqueued[i].state = "READY"

\* the handler of a quantum expiry has put its process back on the queue
EnqueuedAfterQuantum ==
    /\ last.ev.type = "BLOCKED_TO_READY"
    /\ last.ev.payload.reason = "quantum"
    /\ enqueued # <<>>
    /\ enqueued[Len(enqueued)].pid = last.ev.process

\* C6 as claimed: every READY process occurs in the ready queue exactly once.
ReadyExactlyOnceInQueue ==
    \A pid \in ProcessesIn("READY") : TimesReady(pid) = 1

\* C6 as amended: a READY process occurs in the ready queue exactly once,
\* except the one _attempt_dispatch popped and reserved as scheduler.running
\* with its DISPATCH_COMPLETE pending, which occurs in it zero times.
ReadyOnceOrReserved ==
    \A pid \in ProcessesIn("READY") :
        \/ TimesReady(pid) = 1 /\ running # pid
        \/ /\ TimesReady(pid) = 0
           /\ running = pid
           /\ Pending("DISPATCH_COMPLETE", pid)

\* a process back from a block is READY and reserved for the CPU
ReadyReserved ==
    \E pid \in ProcessesIn("READY") :
        /\ running = pid
        /\ last.ev.type = "BLOCKED_TO_READY"
        /\ last.ev.process = pid

\* C7: at the end of a run cpu_busy_time is CONTEXT_SWITCH_IN for every
\* dispatch plus the lengths of all run slices.
CpuAccountingConserved ==
    phase = "done" =>
        cpu_busy_time = dispatches * CONTEXT_SWITCH_IN + slice_total

\* C8: when the queue has drained 0 <= cpu_busy_time <= current_time and the
\* utilisation reported is floor(cpu_busy_time * 100 / total_time), in 0..100
\* (0 when total_time is 0).
UtilizationReported ==
    phase = "done" =>
        /\ 0 <= cpu_busy_time
        /\ cpu_busy_time <= current_time
        /\ cpu_util = IF current_time > 0
                      THEN (cpu_busy_time * PercentScale) \div current_time
                      ELSE 0
        /\ cpu_util \in 0..PercentScale

\* C9: when SYSCALL_INVOKED executes a syscall of a process, the CPU time the
\* process has executed does not exceed the syscall's offset.
NoCpuTimePastSyscall ==
    SyscallExecuted =>
        process_table[last.ev.process].cpu_time_executed <= LastSyscall.when

\* C10: after a spawn the child's arrival is queued for the same time and a
\* new RUN_COMPLETE is scheduled for the parent, and at the end of the run a
\* process that has spawned has executed all the syscalls after its spawn.
SpawnKeepsCpu ==
    /\ SyscallExecuted /\ LastSyscall.name = "spawn" =>
          /\ \E i \in 1..Len(event_queue) :
                 /\ event_queue[i].type = "PROCESS_ARRIVAL"
                 /\ event_queue[i].time = current_time
          /\ Pending("RUN_COMPLETE", last.ev.process)
    /\ phase = "done" =>
          \A pid \in Pids :
              process_table[pid].children # <<>> =>
                  process_table[pid].pc = Len(process_table[pid].syscalls)

\* some event of the queue is for process pid
PendingFor(pid) ==
    \E i \in 1..Len(event_queue) : event_queue[i].process = pid

\* C11: a wait of a process without children advances the pc, does not block
\* the process and leaves it the CPU: an event is scheduled on which it goes
\* on, and by the end of the run a process without children has executed all
\* its syscalls.
WaitWithoutChildrenContinues ==
    /\ (/\ SyscallExecuted
        /\ LastSyscall.name = "wait"
        /\ process_table[last.ev.process].children = <<>>) =>
          /\ process_table[last.ev.process].pc = last.pc + 1
          /\ process_table[last.ev.process].state # "BLOCKED"
          /\ PendingFor(last.ev.process)
    /\ phase = "done" =>
          \A pid \in Pids :
              process_table[pid].children = <<>> =>
                  process_table[pid].pc = Len(process_table[pid].syscalls)

\* C12: a process whose pc is at the end of its syscalls generates no event
\* after the quantum it ran: once the BLOCKED_TO_READY that ends that quantum
\* is handled, no event is queued for it.
NoEventAfterLastQuantum ==
    (/\ phase = "running"
     /\ last.ev.type = "BLOCKED_TO_READY"
     /\ last.ev.payload.reason = "quantum"
     /\ ~HasCurrentSyscall(process_table[last.ev.process])) =>
        ~PendingFor(last.ev.process)

\* the devices _try_start_bus_transfer chose from that had a request waiting
WaitingDevices(devs) == {i \in 1..Len(devs) : devs[i].queue # <<>>}

\* seq without its k-th element
Without(seq, k) == SubSeq(seq, 1, k - 1) \o SubSeq(seq, k + 1, Len(seq))

\* C13: whenever _try_start_bus_transfer starts a transfer, the device it
\* chose has the largest read_speed of the devices with a request waiting
\* (among those of that speed, one whose oldest request is oldest), whatever
\* the operation, and the request it dequeued is the first of the oldest
\* requests of that device's queue.
BusSelectionRule ==
    started # <<>> =>
        LET devs == started[1].devices
            d    == started[1].d
            req  == started[1].req
            q    == devs[d].queue
        IN  /\ d \in WaitingDevices(devs)
            /\ \A e \in WaitingDevices(devs) :
                   /\ devs[e].read_speed <= devs[d].read_speed
                   /\ devs[e].read_speed = devs[d].read_speed =>
                          \A j \in 1..Len(devs[e].queue) :
                              \E k \in 1..Len(q) :
                                  q[k].enqueue_time <= devs[e].queue[j].enqueue_time
            /\ \E k \in 1..Len(q) :
                   /\ q[k] = req
                   /\ \A j \in 1..Len(q) :
                          /\ q[j].enqueue_time >= req.enqueue_time
                          /\ j < k => q[j].enqueue_time > req.enqueue_time
                   /\ devices[d].queue = Without(q, k)
            /\ devices[d].in_use
            /\ bus_owner = req.process

\* a write is started on a device while another device of the same read
\* speed has a request waiting too
WriteChosenAmongEqualReaders ==
    /\ started # <<>>
    /\ started[1].req.op = "write"
    /\ \E e \in WaitingDevices(started[1].devices) :
           /\ e # started[1].d
           /\ started[1].devices[e].read_speed
                  = started[1].devices[started[1].d].read_speed

\* the ready queue as the last handler's enqueue_ready left it, or as it was
QueueAtDispatch ==
    IF enqueued' # <<>> THEN [i \in 1..Len(enqueued') |-> enqueued'[i].pid]
    ELSE ready_queue

\* C14: dispatch is FIFO: a handler appends to the tail of the ready queue,
\* and a dispatch takes the head of the queue (the process appended earliest),
\* schedules its DISPATCH_COMPLETE and leaves the others in their order.
FifoDispatch ==
    [][/\ enqueued' # <<>> =>
              /\ Len(QueueAtDispatch) = Len(ready_queue) + 1
              /\ SubSeq(QueueAtDispatch, 1, Len(ready_queue)) = ready_queue
       /\ IF dispatches' > dispatches
          THEN /\ QueueAtDispatch # <<>>
               /\ running' = Head(QueueAtDispatch)
               /\ ready_queue' = Tail(QueueAtDispatch)
               /\ \E i \in 1..Len(event_queue') :
                      /\ event_queue'[i].type = "DISPATCH_COMPLETE"
                      /\ event_queue'[i].process = running'
                      /\ event_queue'[i].order = event_counter'
          ELSE ready_queue' = QueueAtDispatch]_vars

\* a process was dispatched at a RUN_COMPLETE while another one stayed queued
DispatchedAheadOfQueued ==
    /\ last.ev.type = "RUN_COMPLETE"
    /\ running # NoPid
    /\ ready_queue # <<>>

\* start() has returned from its pushes and no event is handled yet
JustStarted == phase = "running" /\ last.ev.type = ""

HasCommand(name) == \E i \in 1..Len(commands) : commands[i].name = name

\* the entry process is the first one created, from command name, and its
\* arrival is pushed for time 0
EntryProcessFrom(name) ==
    /\ phase \in {"running", "done"} =>
           /\ process_table # <<>>
           /\ process_table[1].command_name = name
           /\ process_table[1].ppid = NoPid
    /\ JustStarted =>
           /\ Len(process_table) = 1
           /\ event_queue = <<Event(0, 1, "PROCESS_ARRIVAL", 1, NoPayload)>>

\* C15 as claimed: start() creates the entry process from the command
\* "shell" whenever the command file has it, and from the first command only
\* otherwise, and pushes its PROCESS_ARRIVAL for time 0.
EntryIsShellIfPresent ==
    commands # <<>> =>
        EntryProcessFrom(IF HasCommand("shell") THEN "shell"
                         ELSE commands[1].name)

\* C15 as amended: start() creates the entry process from the first command
\* of the command file, whether the file has a command "shell" or not, and
\* pushes its PROCESS_ARRIVAL for time 0.
EntryIsFirstCommand ==
    commands # <<>> => EntryProcessFrom(commands[1].name)

\* the run has started on a command file whose second command is "shell"
StartedBesideShell ==
    /\ JustStarted
    /\ HasCommand("shell")
    /\ commands[1].name # "shell"

\* CPU time executed by the processes up to the i-th of the table
RECURSIVE ExecutedUpTo(_)
ExecutedUpTo(i) ==
    IF i = 0 THEN 0
    ELSE ExecutedUpTo(i - 1) + process_table[i].cpu_time_executed

\* C16: the handler of RUN_COMPLETE adds to the process's cpu_time_executed
\* exactly the length of the slice that ended (the run_for that
\* DISPATCH_COMPLETE added to cpu_busy_time), so that between slices the
\* CPU time of all processes adds up to cpu_busy_time.
CpuTimeAdvancesBySlice ==
    /\ [](phase = "running" /\ last.ev.type = "RUN_COMPLETE" =>
              ExecutedUpTo(Len(process_table)) = cpu_busy_time)
    /\ [][last' # last /\ last'.ev.type = "RUN_COMPLETE" =>
              process_table'[last'.ev.process].cpu_time_executed
                  = process_table[last'.ev.process].cpu_time_executed
                        + (last'.ev.time - slice_start)]_vars

\* the step handles a RUN_COMPLETE that ends a slice as long as the time its
\* process had left, at DISPATCH_COMPLETE, until its next syscall
SliceEndsAtSyscall ==
    /\ last' # last
    /\ last'.ev.type = "RUN_COMPLETE"
    /\ HasCurrentSyscall(process_table[last'.ev.process])
    /\ last'.ev.time - slice_start
           = TimeUntilNextSyscall(process_table[last'.ev.process])

\* C17: when a slice ends exactly at the offset of the process's next
\* syscall, the handler of RUN_COMPLETE pushes SYSCALL_INVOKED for the same
\* virtual time and no BLOCKED_TO_READY that would preempt the process.
SyscallAtEndOfSlice ==
    [][SliceEndsAtSyscall =>
           /\ \E i \in 1..Len(event_queue') :
                  /\ event_queue'[i].process = last'.ev.process
                  /\ event_queue'[i].type = "SYSCALL_INVOKED"
                  /\ event_queue'[i].time = last'.ev.time
           /\ \A i \in 1..Len(event_queue') :
                  event_queue'[i].process = last'.ev.process =>
                      event_queue'[i].type # "BLOCKED_TO_READY"]_vars

\* C18: an exit executed at time t has its PROCESS_EXIT handled at t, and
\* the handler of PROCESS_EXIT leaves a CPU_AVAILABLE queued for
\* t + CONTEXT_SWITCH_MOVES, no dispatch being under way before that time.
ExitFreesCpuAfterMove ==
    /\ SyscallExecuted /\ LastSyscall.name = "exit" =>
           \E i \in 1..Len(event_queue) :
               /\ event_queue[i].type = "PROCESS_EXIT"
               /\ event_queue[i].process = last.ev.process
               /\ event_queue[i].time = current_time
    /\ phase = "running" /\ last.ev.type = "PROCESS_EXIT" =>
           /\ \E i \in 1..Len(event_queue) :
                  /\ event_queue[i].type = "CPU_AVAILABLE"
                  /\ event_queue[i].time = current_time + CONTEXT_SWITCH_MOVES
           /\ \A i \in 1..Len(event_queue) :
                  event_queue[i].type = "DISPATCH_COMPLETE" =>
                      event_queue[i].time >= current_time + CONTEXT_SWITCH_MOVES
                                                 + CONTEXT_SWITCH_IN

\* the handler of IO_COMPLETE has freed the device and the bus (they were
\* free when it tried to start the next transfer) and has pushed, before that
\* transfer's IO_COMPLETE, the standard-unblock BLOCKED_TO_READY of its
\* process for time t
IoCompleteUnblocksAt(t) ==
    phase = "running" /\ last.ev.type = "IO_COMPLETE" =>
        LET d == DeviceIndex(devices, last.ev.payload.device)
        IN  /\ \E i \in 1..Len(event_queue) :
                   /\ event_queue[i].type = "BLOCKED_TO_READY"
                   /\ event_queue[i].process = last.ev.process
                   /\ event_queue[i].payload.reason = ""
                   /\ event_queue[i].time = t
                   /\ \A j \in 1..Len(event_queue) :
                          event_queue[j].type = "IO_COMPLETE" =>
                              event_queue[j].order > event_queue[i].order
            /\ IF started = <<>>
               THEN ~bus_busy /\ bus_owner = NoPid /\ ~devices[d].in_use
               ELSE \A e \in 1..Len(devices) :
                        ~started[1].devices[e].in_use

\* C19 as claimed: on IO_COMPLETE at time t the handler frees the device and
\* the bus and pushes the standard-unblock BLOCKED_TO_READY for time t,
\* before it tries to start the next transfer.
IoCompleteUnblocksNow == IoCompleteUnblocksAt(current_time)

\* C19 as amended: as claimed, but the BLOCKED_TO_READY is pushed for time
\* t + CONTEXT_SWITCH_MOVES.
IoCompleteUnblocksAfterMove ==
    IoCompleteUnblocksAt(current_time + CONTEXT_SWITCH_MOVES)

\* an IO_COMPLETE whose handler started the transfer of a waiting request
IoCompleteStartedNext ==
    /\ phase = "running"
    /\ last.ev.type = "IO_COMPLETE"
    /\ started # <<>>

\* C20: a sleep of K executed at time t schedules SLEEP_COMPLETE for exactly
\* t + CONTEXT_SWITCH_MOVES + K and nothing else for the process, and as long
\* as its SLEEP_COMPLETE is pending a process is neither READY nor in the
\* ready queue nor appended to it; so also for K = 0.
SleepWakesAfterMoveAndDuration ==
    /\ SyscallExecuted /\ LastSyscall.name = "sleep" =>
           /\ PendingFor(last.ev.process)
           /\ \A i \in 1..Len(event_queue) :
                  event_queue[i].process = last.ev.process =>
                      /\ event_queue[i].type = "SLEEP_COMPLETE"
                      /\ event_queue[i].time = current_time + CONTEXT_SWITCH_MOVES
                                                   + LastSyscall.args.amount
    /\ \A i \in 1..Len(event_queue) :
           event_queue[i].type = "SLEEP_COMPLETE" =>
               /\ process_table[event_queue[i].process].state # "READY"
               /\ TimesReady(event_queue[i].process) = 0
               /\ \A j \in 1..Len(enqueued) :
                      enqueued[j].pid # event_queue[i].process

\* a sleep of 0 usecs has been executed
SleepZeroExecuted ==
    /\ SyscallExecuted
    /\ LastSyscall.name = "sleep"
    /\ LastSyscall.args.amount = 0
    /\ Pending("SLEEP_COMPLETE", last.ev.process)

\* every child of pid is in state EXIT
AllChildrenExited(pid) ==
    \A i \in 1..Len(process_table[pid].children) :
        process_table[process_table[pid].children[i]].state = "EXIT"

\* C21: a wait of a process that has children, all of them already in EXIT,
\* is a no-op: the pc advances, the process is not marked as waiting and no
\* move to BLOCKED is scheduled for it; and no process is BLOCKED with
\* waiting_for_children set while all its children are in EXIT and no event
\* is left that would wake it.
WaitWithExitedChildrenContinues ==
    /\ (/\ SyscallExecuted
        /\ LastSyscall.name = "wait"
        /\ process_table[last.ev.process].children # <<>>
        /\ AllChildrenExited(last.ev.process)) =>
          /\ process_table[last.ev.process].pc = last.pc + 1
          /\ ~process_table[last.ev.process].waiting_for_children
          /\ ~Pending("BLOCKED_TO_READY", last.ev.process)
    /\ \A pid \in Pids :
           ~ /\ process_table[pid].state = "BLOCKED"
             /\ process_table[pid].waiting_for_children
             /\ AllChildrenExited(pid)
             /\ ~PendingFor(pid)

\* the events of the queue that wake pid from its wait: its WAIT_COMPLETE and
\* the BLOCKED_TO_READY that _handle_wait_complete schedules
WaitWakeups(pid) ==
    {i \in 1..Len(event_queue) :
        /\ event_queue[i].process = pid
        /\ \/ event_queue[i].type = "WAIT_COMPLETE"
           \/ /\ event_queue[i].type = "BLOCKED_TO_READY"
              /\ event_queue[i].payload.from = "wait"}

\* C22: a process that blocked in wait is not READY, not in the ready queue
\* and not appended to it as long as it is waiting, and an event that wakes
\* it is queued only while every process of its children list is in EXIT, at
\* most one at a time; WAIT_COMPLETE(parent) is pushed only by the handler
\* of the PROCESS_EXIT of a child of the parent, for the current time, when
\* the parent is waiting, every child is in EXIT and no wake-up of this wait
\* has been pushed before.
WaitCompleteOnlyWhenAllChildrenExited ==
    /\ [](\A pid \in Pids :
              /\ process_table[pid].waiting_for_children =>
                     /\ process_table[pid].state # "READY"
                     /\ TimesReady(pid) = 0
                     /\ \A j \in 1..Len(enqueued) : enqueued[j].pid # pid
              /\ WaitWakeups(pid) # {} =>
                     /\ process_table[pid].waiting_for_children
                     /\ AllChildrenExited(pid)
                     /\ Cardinality(WaitWakeups(pid)) = 1
              /\ (/\ phase = "running"
                  /\ last.ev.type = "BLOCKED_TO_READY"
                  /\ last.ev.payload.from = "wait"
                  /\ last.ev.process = pid) =>
                     /\ AllChildrenExited(pid)
                     /\ TimesReady(pid) + (IF running = pid THEN 1 ELSE 0) = 1)
    /\ [][\A i \in 1..Len(event_queue') :
              (/\ event_queue'[i].order > event_counter
               /\ event_queue'[i].type = "WAIT_COMPLETE") =>
                  /\ last'.ev.type = "PROCESS_EXIT"
                  /\ process_table[last'.ev.process].ppid = event_queue'[i].process
                  /\ event_queue'[i].time = current_time'
                  /\ process_table[event_queue'[i].process].waiting_for_children
                  /\ WaitWakeups(event_queue'[i].process) = {}
                  /\ \A c \in 1..Len(process_table'[event_queue'[i].process].children) :
                         process_table'[process_table'[event_queue'[i].process]
                                            .children[c]].state = "EXIT"]_vars

\* the exit of the last of two or more children has just pushed the
\* WAIT_COMPLETE of their waiting parent
ParentWokenByLastChild ==
    /\ phase = "running"
    /\ last.ev.type = "PROCESS_EXIT"
    /\ process_table[last.ev.process].ppid # NoPid
    /\ Len(process_table[process_table[last.ev.process].ppid].children) >= 2
    /\ Pending("WAIT_COMPLETE", process_table[last.ev.process].ppid)

\* C23: the bus is work-conserving: after every handled event, if bus_busy
\* is false then every device queue is empty.
BusWorkConserving ==
    ~bus_busy => WaitingDevices(devices) = {}

\* a read or write has just queued its request behind a transfer in
\* progress: the bus is busy and the request waits in its device queue
RequestQueuedBehindTransfer ==
    /\ SyscallExecuted
    /\ LastSyscall.name \in {"read", "write"}
    /\ bus_busy
    /\ started = <<>>
    /\ \E i \in WaitingDevices(devices) :
           \E j \in 1..Len(devices[i].queue) :
               devices[i].queue[j].process = last.ev.process

\* the queued events that stand for a context switch in or a slice in
\* progress
CpuEvents ==
    {i \in 1..Len(event_queue) :
        event_queue[i].type \in {"DISPATCH_COMPLETE", "RUN_COMPLETE"}}

\* C24: the event queue holds at most one DISPATCH_COMPLETE or RUN_COMPLETE
\* in total, and the process of a pending one is scheduler.running; a
\* dispatch starts only when none is pending (the one whose handler starts
\* it has been popped), so that no dispatch starts during a context switch
\* in or a slice and the slices of different processes do not overlap.
CpuReservationExclusive ==
    /\ [](/\ Cardinality(CpuEvents) <= 1
          /\ \A i \in CpuEvents : event_queue[i].process = running)
    /\ [][dispatches' > dispatches =>
              /\ running' # NoPid
              /\ \E i \in 1..Len(event_queue') :
                     /\ event_queue'[i].type = "DISPATCH_COMPLETE"
                     /\ event_queue'[i].process = running'
                     /\ event_queue'[i].time = current_time' + CONTEXT_SWITCH_IN
              /\ \A i \in CpuEvents :
                     /\ event_queue[i].order = last'.ev.order
                     /\ event_queue[i].type = "RUN_COMPLETE"]_vars

\* a process is dispatched while another one, whose slice has just ended,
\* still has its system call to execute
DispatchedBesideSyscall ==
    /\ CpuEvents # {}
    /\ \E i \in 1..Len(event_queue) :
           /\ event_queue[i].type = "SYSCALL_INVOKED"
           /\ event_queue[i].process # running
    /\ ready_queue # <<>>

\* the request of process pid waits in a device queue
RequestQueued(pid) ==
    \E i \in 1..Len(devices) :
        \E j \in 1..Len(devices[i].queue) : devices[i].queue[j].process = pid

\* process pid has just executed a read or a write
IoIssued(pid) ==
    /\ SyscallExecuted
    /\ LastSyscall.name \in {"read", "write"}
    /\ last.ev.process = pid

\* the IO_COMPLETE of process pid has just been handled
IoCompleteHandled(pid) ==
    /\ phase = "running"
    /\ last.ev.type = "IO_COMPLETE"
    /\ last.ev.process = pid

\* the BLOCKED_TO_READY that follows the transfer of process pid has just
\* appended it to the ready queue
ReadyAfterIo(pid) ==
    /\ phase = "running"
    /\ last.ev.type = "BLOCKED_TO_READY"
    /\ last.ev.payload.from = "io"
    /\ last.ev.process = pid
    /\ \E j \in 1..Len(enqueued) : enqueued[j].pid = pid

\* the next event of the queue lies after MaxTime: the run is not followed
\* further
HorizonReached ==
    /\ phase = "running"
    /\ event_queue # <<>>
    /\ HeapPop(event_queue).item.time > MaxTime

\* C25: every request is eventually served: a request that waits in a device
\* queue is eventually taken from it and its transfer started, and the
\* process that issued a read or a write eventually has its IO_COMPLETE
\* handled and is then appended to the ready queue again (in a run followed
\* up to MaxTime).
EveryRequestServed ==
    \A pid \in 1..MaxEntries :
        /\ RequestQueued(pid) ~>
               (Pending("IO_COMPLETE", pid) /\ bus_owner = pid) \/ HorizonReached
        /\ IoIssued(pid) ~> IoCompleteHandled(pid) \/ HorizonReached
        /\ IoIssued(pid) ~> ReadyAfterIo(pid) \/ HorizonReached

\* a request of the slower device that was overtaken is served: the transfer
\* that has just ended was on a faster device for a process that issued its
\* request later (processes issue their requests in the order of their
\* pids), and its end starts the transfer of the request that waited on the
\* slower device
SlowDeviceServedAfterFaster ==
    /\ phase = "running"
    /\ last.ev.type = "IO_COMPLETE"
    /\ started # <<>>
    /\ devices[started[1].d].read_speed
           < devices[DeviceIndex(devices, last.ev.payload.device)].read_speed
    /\ started[1].req.process < last.ev.process

====
